---- MODULE Spec2Model ----
(***************************************************************************)
(* CrowdVision-AI: the detect-crowd API route (four revisions of           *)
(* app/api/detect-crowd/route.ts), the two risk classifiers, and the       *)
(* WebcamFeed component that polls the route every 500 ms.                 *)
(***************************************************************************)
EXTENDS Integers, Sequences, FiniteSets, TLC

\* ------------------------------------------------------------------------
\* Bounds of the model
\* ------------------------------------------------------------------------
\* largest people count the external inference server reports
MaxCount == 11
\* getUserMedia calls that may be outstanding at the same time
MaxPending == 3
\* media streams tracked at the same time (held, leaked or stopped)
MaxStreams == 2
\* interval timers tracked at the same time
MaxTimers == 2
\* detection requests that may be unanswered at the same time
MaxInFlight == 2
\* sockets a CameraFeedClient has created and not disconnected
MaxSockets == 2
\* add, save and delete operations performed on the camera management page
MaxOps == 3
\* health checks of BackendStatus that may be running at the same time
MaxChecks == 3
\* alerts the Android app is shown while it is observed
MaxAlerts == 3
\* milliseconds of Date.now() the observation spans
MaxNow == 2

\* ------------------------------------------------------------------------
\* Program constants
\* ------------------------------------------------------------------------
\* Math.floor(Math.random() * 15) + 1 in the route's generateMockDetections
RouteMockMax == 15
\* Math.floor(Math.random() * 10) + 1 in WebcamFeed's generateMockDetections
WebcamMockMax == 10
\* private maxReconnectAttempts = 5 of CameraFeedClient
maxReconnectAttempts == 5

\* Math.random() draws and inference-server counts the WebcamFeed model
\* samples: one count in each band of the classifier that produces it
RouteMockDraws == {1, 5, 11}
WebcamMockDraws == {4, 5, 8}
MlCountDraws == {0, 6, 10}

\* the number Number.parseInt gives for a text that is not a number
NaN == -1

Risks == {"low", "medium", "high"}

Rank(r) == CASE r = "low" -> 0 [] r = "medium" -> 1 [] r = "high" -> 2

RouteImpls == {"part_003", "part_004", "part_005", "part_006"}
MockImpls == {"part_004", "part_006"}

\* camera ids that send requests to the route
CameraIds == {"CAM-001", "CAM-002"}

\* alert thresholds an operator types into the camera edit form
ThresholdInputs == {5, 11}

NoBody == [count |-> -1, riskLevel |-> "none"]

VARIABLES
    \* --- detect-crowd route -------------------------------------------
    routeImpl,       \* which revision of route.ts is deployed
    prevRisk,        \* per camera: riskLevel of the preceding 200 result
    lastReq,         \* outcome and side effects of the last handled request
    alertThreshold,  \* per camera: alertThreshold of the camera config
    \* --- classifier harness -------------------------------------------
    argA, argB,      \* two people counts
    outA, outB,      \* the risk levels computed for them
    classifier,      \* which classifier computed outA/outB
    \* --- WebcamFeed ---------------------------------------------------
    camera,          \* the camera prop: id, status, riskLevel
    phase,           \* "created", "mounted" or "unmounted"
    isPaused,
    isWebcamActive,
    isWebcamEnabled,
    detections,      \* NoDetection (null) or a DetectionResult
    error,           \* "none" (null), "webcam" or "ml"
    detectionIntervalRef, \* 0 (null) or the id of a timer
    streamRef,       \* 0 (null) or the id of a stream
    streams,         \* per stream id: "free", "live" or "stopped"
    timers,          \* per timer id: "free" or "live", and its closure's isPaused
    pendingInit,     \* initializeWebcam calls awaiting getUserMedia
    video,           \* <video>: "none", "attached" (srcObject set), "loaded"
    closurePaused,   \* isPaused in the closure of a pending onloadedmetadata
    inflight,        \* runDetection calls awaiting detectCrowd, oldest first
    reported,        \* last result passed to onDetectionUpdate
    \* --- lib/backend-client.ts: CameraFeedClient -------------------------
    cameraFeedClient, \* the module's singleton: NoClient (null) or its fields
    sockets,         \* per socket id: connection state and registered listeners
    emitted,         \* events sent to the camera feed server
    requested,       \* camera ids startCamera() has been called with
    \* --- BackendStatus ---------------------------------------------------
    backendStatus,   \* the status state of BackendStatus: cameraFeed, dataAPI, checking
    healthChecks,    \* checkStatus calls awaiting checkBackendHealth
    answered,        \* what the two servers answered in the last completed check
    statusPhase,     \* "created", "mounted" or "unmounted"
    \* --- alerts page -----------------------------------------------------
    alerts,          \* per alert id: status
    filterStatus,
    filterSeverity,
    \* --- alert history page ----------------------------------------------
    searchQuery,
    historySeverity, \* filterSeverity of the history page
    csvContent,      \* the rows of the last exported CSV, split on commas
    \* --- camera management page ------------------------------------------
    cameras,         \* the camera list: id and alertThreshold of each camera
    editData,        \* edit form of the card in edit mode, or NoEdit
    formData,        \* form of the open add-camera dialog, or NoForm
    ops,             \* add, save and delete operations performed
    \* --- android-app/App.tsx ---------------------------------------------
    appAlerts,       \* the alerts state of App: id, cameraId, acknowledged
    now              \* Date.now() at the last foreground message

routeVars == <<routeImpl, prevRisk, lastReq, alertThreshold>>
classVars == <<argA, argB, outA, outB, classifier>>
feedVars == <<camera, phase, isPaused, isWebcamActive, isWebcamEnabled,
              detections, error, detectionIntervalRef, streamRef, streams,
              timers, pendingInit, video, closurePaused, inflight, reported>>
clientVars == <<cameraFeedClient, sockets, emitted, requested>>
healthVars == <<backendStatus, healthChecks, answered, statusPhase>>
alertsVars == <<alerts, filterStatus, filterSeverity>>
historyVars == <<searchQuery, historySeverity, csvContent>>
settingsVars == <<cameras, editData, formData, ops>>
dashVars == <<clientVars, healthVars, alertsVars, historyVars, settingsVars>>
appVars == <<appAlerts, now>>

vars == <<routeVars, classVars, feedVars, dashVars, appVars>>

\* ------------------------------------------------------------------------
\* Risk classifiers
\* ------------------------------------------------------------------------
\* mutant: the medium band tested with the comparison reversed
riskLevel_route_reversed(count) ==
    IF count > 10 THEN "high"
    ELSE IF count < 6 THEN "medium"
    ELSE "low"

\* route generateMockDetections: let riskLevel = "low";
\* if (count > 10) "high" else if (count > 6) "medium"
riskLevel_route(count) ==
    IF count > 10 THEN "high"
    ELSE IF count > 6 THEN "medium"
    ELSE "low"

\* WebcamFeed generateMockDetections: if (count > 7) "high"
\* else if (count > 4) "medium"
riskLevel_webcam(count) ==
    IF count > 7 THEN "high"
    ELSE IF count > 4 THEN "medium"
    ELSE "low"

\* the Python detection endpoint: count < 5 low, count < 10 medium, else high
riskLevel_python(count) ==
    IF count < 5 THEN "low"
    ELSE IF count < 10 THEN "medium"
    ELSE "high"

\* route generateMockDetections(): count is the Math.random() draw
generateMockDetections_route(count) ==
    [count |-> count, riskLevel |-> riskLevel_route(count)]

\* WebcamFeed generateMockDetections(): count is the Math.random() draw
generateMockDetections_webcam(count) ==
    [count |-> count, riskLevel |-> riskLevel_webcam(count)]

\* body of a 200 answer of the inference server
mlDetections(count) ==
    [count |-> count, riskLevel |-> riskLevel_python(count)]

\* ------------------------------------------------------------------------
\* detect-crowd route: POST
\* ------------------------------------------------------------------------
\* what the inference server at 127.0.0.1:5000/detect does with one call
MlOutcomes ==
    { [kind |-> "unreachable", status |-> 0, count |-> -1],
      [kind |-> "badjson", status |-> 200, count |-> -1] }
    \cup { [kind |-> "notok", status |-> s, count |-> -1] : s \in {404, 500} }
    \cup { [kind |-> "ok", status |-> 200, count |-> c] : c \in 0..MaxCount }

\* addDoc(collection(db, "alerts"), ...) resolves or throws
FsOutcomes == {"ok", "fail"}

Response(status, body, mlCalled, stored, pushed) ==
    [status |-> status, body |-> body, mlCalled |-> mlCalled,
     stored |-> stored, pushed |-> pushed]

\* mutant: addDoc is awaited outside any try block of its own, so its failure
\* reaches the route's catch
AlertAndReply_noInnerTry(d, fs, mlCalled) ==
    IF d.riskLevel = "high" /\ fs = "fail"
    THEN Response(500, NoBody, mlCalled, FALSE, FALSE)
    ELSE Response(200, d, mlCalled,
                  d.riskLevel = "high" /\ fs = "ok",
                  d.riskLevel = "high")

\* the alert block: if (riskLevel === "high") { try { addDoc } catch {} ;
\* await sendAlertToAndroidApp(...) } ; return NextResponse.json(detections)
AlertAndReply(d, fs, mlCalled) ==
    Response(200, d, mlCalled,
             d.riskLevel = "high" /\ fs = "ok",
             d.riskLevel = "high")

\* the same block of the revision without Firestore
PushAndReply(d) ==
    Response(200, d, FALSE, FALSE, d.riskLevel = "high")

\* revision that forwards to the inference server, one try/catch
POST_003(req, ml, fs) ==
    IF ~req.bodyOk THEN Response(500, NoBody, FALSE, FALSE, FALSE)
    ELSE IF ~req.image THEN Response(400, NoBody, FALSE, FALSE, FALSE)
    ELSE IF ml.kind # "ok" THEN Response(500, NoBody, TRUE, FALSE, FALSE)
    ELSE AlertAndReply(mlDetections(ml.count), fs, TRUE)

\* revision that answers with mock detections and stores alerts
POST_004(req, rand, fs) ==
    IF ~req.bodyOk THEN Response(500, NoBody, FALSE, FALSE, FALSE)
    ELSE IF ~req.image THEN Response(400, NoBody, FALSE, FALSE, FALSE)
    ELSE AlertAndReply(generateMockDetections_route(rand), fs, FALSE)

\* revision that forwards to the inference server, nested try/catch
POST_005(req, ml, fs) ==
    IF ~req.bodyOk THEN Response(500, NoBody, FALSE, FALSE, FALSE)
    ELSE IF ~req.image THEN Response(400, NoBody, FALSE, FALSE, FALSE)
    ELSE IF ml.kind = "unreachable" THEN Response(503, NoBody, TRUE, FALSE, FALSE)
    ELSE IF ml.kind = "notok" THEN Response(ml.status, NoBody, TRUE, FALSE, FALSE)
    ELSE IF ml.kind = "badjson" THEN Response(503, NoBody, TRUE, FALSE, FALSE)
    ELSE AlertAndReply(mlDetections(ml.count), fs, TRUE)

\* revision that answers with mock detections, no Firestore
POST_006(req, rand) ==
    IF ~req.bodyOk THEN Response(500, NoBody, FALSE, FALSE, FALSE)
    ELSE IF ~req.image THEN Response(400, NoBody, FALSE, FALSE, FALSE)
    ELSE PushAndReply(generateMockDetections_route(rand))

Requests ==
    [bodyOk : BOOLEAN, image : BOOLEAN, cameraId : CameraIds]

\* a revision that does not call the inference server
NoMl == [kind |-> "none", status |-> 0, count |-> -1]

NoReq ==
    [cam |-> "none", bodyOk |-> FALSE, image |-> FALSE, ml |-> NoMl,
     fs |-> "none", status |-> 0, count |-> -1,
     riskLevel |-> "none", mlCalled |-> FALSE, stored |-> FALSE,
     pushed |-> FALSE, prevRisk |-> "none"]

\* the route has handled req with response r; ml is the answer of the
\* inference server when it was called and fs the outcome of addDoc when it
\* was called
Handled(req, r, ml, fs) ==
    /\ lastReq' = [cam |-> req.cameraId, bodyOk |-> req.bodyOk,
                   image |-> req.bodyOk /\ req.image,
                   ml |-> IF r.mlCalled THEN ml ELSE NoMl,
                   fs |-> IF r.status = 200 /\ r.body.riskLevel = "high"
                          THEN fs ELSE "none",
                   status |-> r.status, count |-> r.body.count,
                   riskLevel |-> r.body.riskLevel, mlCalled |-> r.mlCalled,
                   stored |-> r.stored, pushed |-> r.pushed,
                   prevRisk |-> prevRisk[req.cameraId]]
    /\ prevRisk' = IF r.status = 200
                   THEN [prevRisk EXCEPT ![req.cameraId] = r.body.riskLevel]
                   ELSE prevRisk
    /\ UNCHANGED <<routeImpl, alertThreshold>>

Post003 ==
    /\ routeImpl = "part_003"
    /\ \E req \in Requests, ml \in MlOutcomes, fs \in FsOutcomes :
          Handled(req, POST_003(req, ml, fs), ml, fs)
    /\ UNCHANGED <<classVars, feedVars, dashVars, appVars>>

Post004 ==
    /\ routeImpl = "part_004"
    /\ \E req \in Requests, rand \in 1..RouteMockMax, fs \in FsOutcomes :
          Handled(req, POST_004(req, rand, fs), NoMl, fs)
    /\ UNCHANGED <<classVars, feedVars, dashVars, appVars>>

Post005 ==
    /\ routeImpl = "part_005"
    /\ \E req \in Requests, ml \in MlOutcomes, fs \in FsOutcomes :
          Handled(req, POST_005(req, ml, fs), ml, fs)
    /\ UNCHANGED <<classVars, feedVars, dashVars, appVars>>

Post006 ==
    /\ routeImpl = "part_006"
    /\ \E req \in Requests, rand \in 1..RouteMockMax :
          Handled(req, POST_006(req, rand), NoMl, "none")
    /\ UNCHANGED <<classVars, feedVars, dashVars, appVars>>

\* camera management page: handleUpdateCamera(cameraId, updates)
handleUpdateCamera ==
    /\ \E cam \in CameraIds, t \in ThresholdInputs :
          /\ alertThreshold[cam] # t
          /\ alertThreshold' = [alertThreshold EXCEPT ![cam] = t]
    /\ UNCHANGED <<routeImpl, prevRisk, lastReq>>
    /\ UNCHANGED <<classVars, feedVars, dashVars, appVars>>

\* mockCameras of the camera management page
mockCameras ==
    [c \in CameraIds |-> IF c = "CAM-001" THEN 300 ELSE 250]

\* ------------------------------------------------------------------------
\* Classifier harness: both classifiers applied to a pair of counts
\* ------------------------------------------------------------------------
ClassifyRoute ==
    /\ classifier = "none"
    /\ outA' = generateMockDetections_route(argA).riskLevel
    /\ outB' = generateMockDetections_route(argB).riskLevel
    /\ classifier' = "route"
    /\ UNCHANGED <<argA, argB>>
    /\ UNCHANGED <<routeVars, feedVars, dashVars, appVars>>

ClassifyWebcam ==
    /\ classifier = "none"
    /\ outA' = generateMockDetections_webcam(argA).riskLevel
    /\ outB' = generateMockDetections_webcam(argB).riskLevel
    /\ classifier' = "webcam"
    /\ UNCHANGED <<argA, argB>>
    /\ UNCHANGED <<routeVars, feedVars, dashVars, appVars>>

\* ------------------------------------------------------------------------
\* WebcamFeed
\* ------------------------------------------------------------------------
\* mockCameras of the cameras page: the cameras a WebcamFeed is rendered for
FeedCameras ==
    { [id |-> "CAM-001", status |-> "online", riskLevel |-> "high"],
      [id |-> "CAM-002", status |-> "online", riskLevel |-> "medium"],
      [id |-> "CAM-006", status |-> "offline", riskLevel |-> "low"] }

NoDetection == [count |-> -1, riskLevel |-> "none"]

StreamIds == 1..MaxStreams
TimerIds == 1..MaxTimers

NoTimer == [state |-> "free", isPaused |-> FALSE]

\* the refs and state that initializeWebcam and stopWebcam work on
Webcam ==
    [streamRef |-> streamRef, streams |-> streams, video |-> video,
     isWebcamActive |-> isWebcamActive,
     detectionIntervalRef |-> detectionIntervalRef, timers |-> timers,
     pendingInit |-> pendingInit, closurePaused |-> closurePaused]

SetWebcam(w) ==
    /\ streamRef' = w.streamRef
    /\ streams' = w.streams
    /\ video' = w.video
    /\ isWebcamActive' = w.isWebcamActive
    /\ detectionIntervalRef' = w.detectionIntervalRef
    /\ timers' = w.timers
    /\ pendingInit' = w.pendingInit
    /\ closurePaused' = w.closurePaused

\* mutant: the tracks are stopped but streamRef.current is not reset
stopWebcam_keepsRef(w) ==
    [w EXCEPT
       !.streams = IF w.streamRef # 0
                   THEN [w.streams EXCEPT ![w.streamRef] = "stopped"]
                   ELSE w.streams,
       !.video = "none",
       !.closurePaused = FALSE,
       !.isWebcamActive = FALSE,
       !.detectionIntervalRef = 0,
       !.timers = IF w.detectionIntervalRef # 0
                  THEN [w.timers EXCEPT ![w.detectionIntervalRef] = NoTimer]
                  ELSE w.timers]

\* stopWebcam(): stop the tracks of streamRef.current and null it, detach the
\* video, setIsWebcamActive(false), clear the interval of detectionIntervalRef
stopWebcam(w) ==
    [w EXCEPT
       !.streamRef = 0,
       !.streams = IF w.streamRef # 0
                   THEN [w.streams EXCEPT ![w.streamRef] = "stopped"]
                   ELSE w.streams,
       !.video = "none",
       !.closurePaused = FALSE,
       !.isWebcamActive = FALSE,
       !.detectionIntervalRef = 0,
       !.timers = IF w.detectionIntervalRef # 0
                  THEN [w.timers EXCEPT ![w.detectionIntervalRef] = NoTimer]
                  ELSE w.timers]

\* initializeWebcam() up to its await: return if a stream is held, else
\* call getUserMedia
initializeWebcam(w) ==
    IF w.streamRef # 0 THEN w
    ELSE [w EXCEPT !.pendingInit = w.pendingInit + 1]

\* the first effect: cleanup of the previous run (when there was one), then
\* initializeWebcam() or stopWebcam() by status, isWebcamEnabled and id
WebcamEffect(w, enabled, cleanup) ==
    LET w1 == IF cleanup THEN stopWebcam(w) ELSE w
    IN IF camera.status = "online" /\ enabled /\ camera.id = "CAM-001"
       THEN initializeWebcam(w1)
       ELSE stopWebcam(w1)

\* the value of isWebcamEnabled that initializeWebcam reads after its await:
\* the one of the render that called it, where the effect required it true
isWebcamEnabled_closure == TRUE

\* smallest stream id that is not live
FreshStream == CHOOSE i \in StreamIds :
    /\ streams[i] # "live"
    /\ \A j \in StreamIds : streams[j] # "live" => i <= j

\* smallest timer id that is not live
FreshTimer == CHOOSE i \in TimerIds :
    /\ timers[i].state # "live"
    /\ \A j \in TimerIds : timers[j].state # "live" => i <= j

\* component mounted: the first effect runs
Mount ==
    /\ phase = "created"
    /\ phase' = "mounted"
    /\ SetWebcam(WebcamEffect(Webcam, isWebcamEnabled, FALSE))
    /\ UNCHANGED <<camera, isPaused, isWebcamEnabled, detections, error,
                   inflight, reported>>
    /\ UNCHANGED <<routeVars, classVars, dashVars, appVars>>

\* mutant: the handler flips isWebcamEnabled without looking at camera.id
toggleWebcam_anyCamera ==
    /\ phase = "mounted"
    /\ isWebcamEnabled' = ~isWebcamEnabled
    /\ isWebcamEnabled \/ pendingInit < MaxPending
    /\ SetWebcam(IF camera.status = "online" /\ ~isWebcamEnabled
                 THEN initializeWebcam(stopWebcam(Webcam))
                 ELSE stopWebcam(stopWebcam(Webcam)))
    /\ UNCHANGED <<camera, phase, isPaused, detections, error, inflight,
                   reported>>
    /\ UNCHANGED <<routeVars, classVars, dashVars, appVars>>

\* toggleWebcam(): flips isWebcamEnabled for CAM-001; the first effect re-runs
toggleWebcam ==
    /\ phase = "mounted"
    /\ IF camera.id = "CAM-001"
       THEN /\ isWebcamEnabled' = ~isWebcamEnabled
            /\ isWebcamEnabled \/ pendingInit < MaxPending
            /\ SetWebcam(WebcamEffect(Webcam, ~isWebcamEnabled, TRUE))
       ELSE UNCHANGED <<isWebcamEnabled, streamRef, streams, video,
                        isWebcamActive, detectionIntervalRef, timers,
                        pendingInit, closurePaused>>
    /\ UNCHANGED <<camera, phase, isPaused, detections, error, inflight,
                   reported>>
    /\ UNCHANGED <<routeVars, classVars, dashVars, appVars>>

\* "Retry Webcam Access": setIsWebcamEnabled(true) from the error panel
RetryWebcamAccess ==
    /\ phase = "mounted"
    /\ error # "none" /\ ~isWebcamActive /\ camera.id = "CAM-001"
    /\ ~isWebcamEnabled
    /\ pendingInit < MaxPending
    /\ isWebcamEnabled' = TRUE
    /\ SetWebcam(WebcamEffect(Webcam, TRUE, TRUE))
    /\ UNCHANGED <<camera, phase, isPaused, detections, error, inflight,
                   reported>>
    /\ UNCHANGED <<routeVars, classVars, dashVars, appVars>>

\* getUserMedia resolves: the rest of initializeWebcam's try block, then the
\* second effect when isWebcamActive has changed
GetUserMediaResolve ==
    /\ pendingInit > 0
    /\ \E i \in StreamIds : streams[i] # "live"
    /\ pendingInit' = pendingInit - 1
    /\ IF ~isWebcamEnabled_closure
       THEN \* stream.getTracks().forEach(t => t.stop()); return
            /\ streams' = [streams EXCEPT ![FreshStream] = "stopped"]
            /\ UNCHANGED <<streamRef, isWebcamActive, error, video,
                           closurePaused>>
       ELSE /\ streams' = [streams EXCEPT ![FreshStream] = "live"]
            /\ streamRef' = FreshStream
            /\ IF phase = "mounted"
               THEN /\ isWebcamActive' = TRUE
                    /\ error' = "none"
                    /\ IF ~isWebcamActive
                       THEN video' = "attached" /\ closurePaused' = isPaused
                       ELSE UNCHANGED <<video, closurePaused>>
               ELSE UNCHANGED <<isWebcamActive, error, video, closurePaused>>
    /\ UNCHANGED <<camera, phase, isPaused, isWebcamEnabled, detections,
                   detectionIntervalRef, timers, inflight, reported>>
    /\ UNCHANGED <<routeVars, classVars, dashVars, appVars>>

\* getUserMedia rejects: the catch block of initializeWebcam; the first
\* effect re-runs when isWebcamEnabled has changed
GetUserMediaReject ==
    /\ pendingInit > 0
    /\ IF phase = "mounted"
       THEN /\ error' = "webcam"
            /\ isWebcamEnabled' = FALSE
            /\ LET w == [Webcam EXCEPT !.pendingInit = pendingInit - 1,
                                       !.isWebcamActive = FALSE,
                                       !.video = "none",
                                       !.closurePaused = FALSE]
               IN IF isWebcamEnabled
                  THEN SetWebcam(WebcamEffect(w, FALSE, TRUE))
                  ELSE SetWebcam(w)
       ELSE /\ pendingInit' = pendingInit - 1
            /\ UNCHANGED <<error, isWebcamEnabled, streamRef, streams, video,
                           isWebcamActive, detectionIntervalRef, timers,
                           closurePaused>>
    /\ UNCHANGED <<camera, phase, isPaused, detections, inflight, reported>>
    /\ UNCHANGED <<routeVars, classVars, dashVars, appVars>>

\* video.onloadedmetadata: play() and startDetection(), which stores a new
\* interval in detectionIntervalRef
startDetection ==
    /\ phase = "mounted"
    /\ video = "attached"
    /\ \E i \in TimerIds : timers[i].state # "live"
    /\ video' = "loaded"
    /\ detectionIntervalRef' = FreshTimer
    /\ timers' = [timers EXCEPT
                    ![FreshTimer] = [state |-> "live", isPaused |-> closurePaused]]
    /\ closurePaused' = FALSE
    /\ UNCHANGED <<camera, phase, isPaused, isWebcamActive, isWebcamEnabled,
                   detections, error, streamRef, streams, pendingInit,
                   inflight, reported>>
    /\ UNCHANGED <<routeVars, classVars, dashVars, appVars>>

\* togglePause(): offered while the webcam is active
togglePause ==
    /\ phase = "mounted"
    /\ isWebcamActive
    /\ isPaused' = ~isPaused
    /\ UNCHANGED <<camera, phase, isWebcamActive, isWebcamEnabled, detections,
                   error, detectionIntervalRef, streamRef, streams, timers,
                   pendingInit, video, closurePaused, inflight, reported>>
    /\ UNCHANGED <<routeVars, classVars, dashVars, appVars>>

\* one tick of an interval timer: runDetection() up to its await when the
\* closure's isPaused is false and the video and canvas are mounted
Tick ==
    /\ phase = "mounted"
    /\ \E t \in TimerIds :
          /\ timers[t].state = "live"
          /\ ~timers[t].isPaused
    /\ isWebcamActive
    /\ Len(inflight) < MaxInFlight
    /\ inflight' = Append(inflight, [stale |-> FALSE])
    /\ UNCHANGED <<camera, phase, isPaused, isWebcamActive, isWebcamEnabled,
                   detections, error, detectionIntervalRef, streamRef, streams,
                   timers, pendingInit, video, closurePaused, reported>>
    /\ UNCHANGED <<routeVars, classVars, dashVars, appVars>>

\* what fetch("/api/detect-crowd") gives the component: a rejection, or the
\* status and body of the deployed route's answer
FetchOutcomes ==
    LET req == [bodyOk |-> TRUE, image |-> TRUE, cameraId |-> camera.id]
        mls == { ml \in MlOutcomes : ml.kind = "ok" => ml.count \in MlCountDraws }
        answers ==
          CASE routeImpl = "part_003" ->
                 { POST_003(req, ml, fs) : ml \in mls, fs \in FsOutcomes }
            [] routeImpl = "part_004" ->
                 { POST_004(req, r, fs) : r \in RouteMockDraws, fs \in FsOutcomes }
            [] routeImpl = "part_005" ->
                 { POST_005(req, ml, fs) : ml \in mls, fs \in FsOutcomes }
            [] routeImpl = "part_006" ->
                 { POST_006(req, r) : r \in RouteMockDraws }
    IN { [ok |-> FALSE, body |-> NoBody] }
       \cup { [ok |-> a.status = 200, body |-> a.body] : a \in answers }

\* detectCrowd(): the body of an OK response, else generateMockDetections()
detectCrowd(resp, rand) ==
    IF resp.ok THEN resp.body ELSE generateMockDetections_webcam(rand)

\* the unanswered requests once request i is answered: those issued before
\* it hold a frame captured earlier than the frame of the result now held
\* (stale), those issued after it a later one
Remove(q, i) ==
    [j \in 1..(Len(q) - 1) |->
        IF j < i THEN [stale |-> TRUE] ELSE [stale |-> FALSE]]

\* runDetection() after its await: setDetections(result) and
\* onDetectionUpdate(camera.id, result)
ApplyResult(i, result) ==
    /\ detections' = IF phase = "mounted" THEN result ELSE detections
    /\ reported' = result
    /\ inflight' = Remove(inflight, i)
    /\ UNCHANGED <<camera, phase, isPaused, isWebcamActive, isWebcamEnabled,
                   error, detectionIntervalRef, streamRef, streams, timers,
                   pendingInit, video, closurePaused>>
    /\ UNCHANGED <<routeVars, classVars, dashVars, appVars>>

\* a detection request is answered with an OK response
DetectOk ==
    \E i \in 1..Len(inflight), resp \in FetchOutcomes :
          /\ resp.ok
          /\ ApplyResult(i, detectCrowd(resp, 1))

\* a detection request fails: fetch rejects or the response is not OK
DetectFailed ==
    \E i \in 1..Len(inflight), resp \in FetchOutcomes,
       rand \in WebcamMockDraws :
          /\ ~resp.ok
          /\ ApplyResult(i, detectCrowd(resp, rand))

\* component unmounted: the cleanup of the first effect runs
Unmount ==
    /\ phase = "mounted"
    /\ phase' = "unmounted"
    /\ SetWebcam(stopWebcam(Webcam))
    /\ UNCHANGED <<camera, isPaused, isWebcamEnabled, detections, error,
                   inflight, reported>>
    /\ UNCHANGED <<routeVars, classVars, dashVars, appVars>>

\* ------------------------------------------------------------------------
\* lib/backend-client.ts: CameraFeedClient
\* ------------------------------------------------------------------------
SocketIds == 1..MaxSockets

\* camera ids passed to startCamera (0 is the default)
CameraNumbers == {0, 1}

FeedEvents == {"camera_frame", "camera_error", "camera_response"}

NoClient == [socket |-> -1, reconnectAttempts |-> -1]

NoSocket == [state |-> "free", listeners |-> {}]

start_camera(cameraId) == [event |-> "start_camera", camera_id |-> cameraId]

stop_camera == [event |-> "stop_camera", camera_id |-> -1]

\* this.socket?.connected
SocketConnected ==
    /\ cameraFeedClient # NoClient
    /\ cameraFeedClient.socket # 0
    /\ sockets[cameraFeedClient.socket].state = "connected"

\* smallest socket id not in use
FreshSocket == CHOOSE i \in SocketIds :
    /\ sockets[i].state = "free"
    /\ \A j \in SocketIds : sockets[j].state = "free" => i <= j

\* connect(): return when the socket is connected, else this.socket = io(...)
\* and the four internal handlers; the socket connects asynchronously
Connect(client) ==
    IF /\ client.socket # 0
       /\ sockets[client.socket].state = "connected"
    THEN /\ cameraFeedClient' = client
         /\ UNCHANGED sockets
    ELSE /\ cameraFeedClient' = [client EXCEPT !.socket = FreshSocket]
         /\ sockets' = [i \in SocketIds |->
                          IF i = FreshSocket
                          THEN [state |-> "connecting", listeners |-> {}]
                          ELSE IF i = client.socket
                                  /\ sockets[i].state = "closed"
                          THEN NoSocket
                          ELSE sockets[i]]

\* getCameraFeedClient(): the singleton, constructed (and connected) on the
\* first call
getCameraFeedClient ==
    /\ IF cameraFeedClient = NoClient
       THEN Connect([socket |-> 0, reconnectAttempts |-> 0])
       ELSE UNCHANGED <<cameraFeedClient, sockets>>
    /\ UNCHANGED <<emitted, requested>>
    /\ UNCHANGED <<routeVars, classVars, feedVars, appVars>>
    /\ UNCHANGED <<healthVars, alertsVars, historyVars, settingsVars>>

\* client.connect() called again by the application
connect ==
    /\ cameraFeedClient # NoClient
    /\ \/ SocketConnected
       \/ \E i \in SocketIds : sockets[i].state = "free"
    /\ Connect(cameraFeedClient)
    /\ UNCHANGED <<emitted, requested>>
    /\ UNCHANGED <<routeVars, classVars, feedVars, appVars>>
    /\ UNCHANGED <<healthVars, alertsVars, historyVars, settingsVars>>

\* disconnect(): socket.disconnect() and this.socket = null
disconnect ==
    /\ cameraFeedClient # NoClient
    /\ cameraFeedClient.socket # 0
    /\ sockets' = [sockets EXCEPT ![cameraFeedClient.socket] = NoSocket]
    /\ cameraFeedClient' = [cameraFeedClient EXCEPT !.socket = 0]
    /\ UNCHANGED <<emitted, requested>>
    /\ UNCHANGED <<routeVars, classVars, feedVars, appVars>>
    /\ UNCHANGED <<healthVars, alertsVars, historyVars, settingsVars>>

\* mutant: start_camera is emitted whether or not the socket is connected
startCamera_alwaysEmits ==
    /\ cameraFeedClient # NoClient
    /\ \E cameraId \in CameraNumbers :
          /\ requested' = requested \cup {cameraId}
          /\ emitted' = emitted \cup {start_camera(cameraId)}
    /\ UNCHANGED <<cameraFeedClient, sockets>>
    /\ UNCHANGED <<routeVars, classVars, feedVars, appVars>>
    /\ UNCHANGED <<healthVars, alertsVars, historyVars, settingsVars>>

\* startCamera(cameraId): logs and returns unless the socket is connected,
\* else emits start_camera
startCamera ==
    /\ cameraFeedClient # NoClient
    /\ \E cameraId \in CameraNumbers :
          /\ requested' = requested \cup {cameraId}
          /\ emitted' = IF SocketConnected
                        THEN emitted \cup {start_camera(cameraId)}
                        ELSE emitted
    /\ UNCHANGED <<cameraFeedClient, sockets>>
    /\ UNCHANGED <<routeVars, classVars, feedVars, appVars>>
    /\ UNCHANGED <<healthVars, alertsVars, historyVars, settingsVars>>

\* stopCamera(): logs and returns unless the socket is connected
stopCamera ==
    /\ cameraFeedClient # NoClient
    /\ emitted' = IF SocketConnected
                  THEN emitted \cup {stop_camera}
                  ELSE emitted
    /\ UNCHANGED <<cameraFeedClient, sockets, requested>>
    /\ UNCHANGED <<routeVars, classVars, feedVars, appVars>>
    /\ UNCHANGED <<healthVars, alertsVars, historyVars, settingsVars>>

\* socket.on(event, callback) of onFrame / onError / onCameraResponse: logs
\* and returns when there is no socket
Register(event) ==
    IF cameraFeedClient.socket # 0
    THEN [sockets EXCEPT ![cameraFeedClient.socket].listeners = @ \cup {event}]
    ELSE sockets

onFrame ==
    /\ cameraFeedClient # NoClient
    /\ sockets' = Register("camera_frame")
    /\ UNCHANGED <<cameraFeedClient, emitted, requested>>
    /\ UNCHANGED <<routeVars, classVars, feedVars, appVars>>
    /\ UNCHANGED <<healthVars, alertsVars, historyVars, settingsVars>>

onError ==
    /\ cameraFeedClient # NoClient
    /\ sockets' = Register("camera_error")
    /\ UNCHANGED <<cameraFeedClient, emitted, requested>>
    /\ UNCHANGED <<routeVars, classVars, feedVars, appVars>>
    /\ UNCHANGED <<healthVars, alertsVars, historyVars, settingsVars>>

onCameraResponse ==
    /\ cameraFeedClient # NoClient
    /\ sockets' = Register("camera_response")
    /\ UNCHANGED <<cameraFeedClient, emitted, requested>>
    /\ UNCHANGED <<routeVars, classVars, feedVars, appVars>>
    /\ UNCHANGED <<healthVars, alertsVars, historyVars, settingsVars>>

\* socket event 'connect': reconnectAttempts = 0
SocketConnect ==
    /\ \E i \in SocketIds :
          /\ sockets[i].state = "connecting"
          /\ sockets' = [sockets EXCEPT ![i].state = "connected"]
    /\ cameraFeedClient' = [cameraFeedClient EXCEPT !.reconnectAttempts = 0]
    /\ UNCHANGED <<emitted, requested>>
    /\ UNCHANGED <<routeVars, classVars, feedVars, appVars>>
    /\ UNCHANGED <<healthVars, alertsVars, historyVars, settingsVars>>

\* socket event 'disconnect' after the transport is lost: socket.io
\* reconnects by itself (reconnection: true)
SocketDisconnect ==
    /\ \E i \in SocketIds :
          /\ sockets[i].state = "connected"
          /\ sockets' = [sockets EXCEPT ![i].state = "connecting"]
    /\ UNCHANGED <<cameraFeedClient, emitted, requested>>
    /\ UNCHANGED <<routeVars, classVars, feedVars, appVars>>
    /\ UNCHANGED <<healthVars, alertsVars, historyVars, settingsVars>>

\* socket event 'connect_error': reconnectAttempts++; socket.io gives up after
\* the first attempt and maxReconnectAttempts reconnection attempts
SocketConnectError ==
    /\ cameraFeedClient.reconnectAttempts <= maxReconnectAttempts
    /\ \E i \in SocketIds :
          /\ sockets[i].state = "connecting"
          /\ sockets' = IF cameraFeedClient.reconnectAttempts
                              = maxReconnectAttempts
                        THEN [sockets EXCEPT ![i].state = "closed"]
                        ELSE sockets
    /\ cameraFeedClient' =
          [cameraFeedClient EXCEPT !.reconnectAttempts = @ + 1]
    /\ UNCHANGED <<emitted, requested>>
    /\ UNCHANGED <<routeVars, classVars, feedVars, appVars>>
    /\ UNCHANGED <<healthVars, alertsVars, historyVars, settingsVars>>

\* ------------------------------------------------------------------------
\* BackendStatus and checkBackendHealth
\* ------------------------------------------------------------------------
\* outcome of fetch(CAMERA_FEED_URL/health): rejected, non-OK or OK response
CameraFeedAnswers == {"reject", "notok", "ok"}

\* outcome of DataAPIClient.healthCheck(): fetch rejected, non-OK response,
\* OK response whose body is not JSON, OK response with a JSON body
DataApiAnswers == {"reject", "notok", "badjson", "ok"}

\* mutant: both checks inside one try block
checkBackendHealth_oneTry(cam, data) ==
    IF cam = "reject"
    THEN [cameraFeed |-> FALSE, dataAPI |-> FALSE]
    ELSE [cameraFeed |-> (cam = "ok"), dataAPI |-> (data = "ok")]

\* checkBackendHealth(): results.cameraFeed = response.ok unless fetch throws;
\* results.dataAPI = true unless healthCheck() throws (request() throws on a
\* rejected fetch, a non-OK response and an unparsable body)
checkBackendHealth(cam, data) ==
    [cameraFeed |-> IF cam = "reject" THEN FALSE ELSE cam = "ok",
     dataAPI |-> IF data \in {"reject", "notok", "badjson"} THEN FALSE
                 ELSE TRUE]

\* the text of the badge
Badge(st) ==
    IF st.checking THEN "Checking..."
    ELSE IF st.cameraFeed /\ st.dataAPI THEN "Connected"
    ELSE IF st.cameraFeed \/ st.dataAPI THEN "Partial"
    ELSE "Offline"

\* checkStatus() up to its await: setStatus(prev => ({...prev, checking: true}))
checkStatus ==
    /\ healthChecks < MaxChecks
    /\ healthChecks' = healthChecks + 1
    /\ backendStatus' = [backendStatus EXCEPT !.checking = TRUE]

\* mount: the effect calls checkStatus() and starts the 30 s interval
MountStatus ==
    /\ statusPhase = "created"
    /\ statusPhase' = "mounted"
    /\ checkStatus
    /\ UNCHANGED answered
    /\ UNCHANGED <<routeVars, classVars, feedVars, appVars>>
    /\ UNCHANGED <<clientVars, alertsVars, historyVars, settingsVars>>

\* the 30 s interval fires checkStatus, also while a check is running
IntervalCheck ==
    /\ statusPhase = "mounted"
    /\ checkStatus
    /\ UNCHANGED <<answered, statusPhase>>
    /\ UNCHANGED <<routeVars, classVars, feedVars, appVars>>
    /\ UNCHANGED <<clientVars, alertsVars, historyVars, settingsVars>>

\* the refresh button: onClick={checkStatus}, disabled={status.checking}
RefreshClick ==
    /\ statusPhase = "mounted"
    /\ ~backendStatus.checking
    /\ checkStatus
    /\ UNCHANGED <<answered, statusPhase>>
    /\ UNCHANGED <<routeVars, classVars, feedVars, appVars>>
    /\ UNCHANGED <<clientVars, alertsVars, historyVars, settingsVars>>

\* checkBackendHealth() returns: setStatus({cameraFeed, dataAPI, checking: false})
HealthCompleted ==
    /\ healthChecks > 0
    /\ healthChecks' = healthChecks - 1
    /\ \E cam \in CameraFeedAnswers, data \in DataApiAnswers :
          LET health == checkBackendHealth(cam, data)
          IN IF statusPhase = "mounted"
             THEN /\ backendStatus' = [cameraFeed |-> health.cameraFeed,
                                       dataAPI |-> health.dataAPI,
                                       checking |-> FALSE]
                  /\ answered' = [cameraFeed |-> cam, dataAPI |-> data]
             ELSE UNCHANGED <<backendStatus, answered>>
    /\ UNCHANGED statusPhase
    /\ UNCHANGED <<routeVars, classVars, feedVars, appVars>>
    /\ UNCHANGED <<clientVars, alertsVars, historyVars, settingsVars>>

\* unmount: clearInterval(interval)
UnmountStatus ==
    /\ statusPhase = "mounted"
    /\ statusPhase' = "unmounted"
    /\ UNCHANGED <<backendStatus, healthChecks, answered>>
    /\ UNCHANGED <<routeVars, classVars, feedVars, appVars>>
    /\ UNCHANGED <<clientVars, alertsVars, historyVars, settingsVars>>

\* ------------------------------------------------------------------------
\* Alerts page and AlertCard
\* ------------------------------------------------------------------------
AlertIds == {"ALT-001", "ALT-002", "ALT-003", "ALT-004"}

StatusFilters == {"all", "active", "acknowledged", "resolved"}

SeverityFilters == {"all", "critical", "warning", "info"}

\* filteredAlerts: the alerts an AlertCard is rendered for
filteredAlerts ==
    { a \in AlertIds :
        /\ (filterStatus = "all" \/ alerts[a].status = filterStatus)
        /\ (filterSeverity = "all" \/ alerts[a].severity = filterSeverity) }

\* mutant: the Acknowledge button rendered for every alert
AcknowledgeOffered_always(alert) == TRUE

\* AlertCard renders Acknowledge only for an active alert
AcknowledgeOffered(alert) == alert.status = "active"

\* AlertCard renders Mark as Resolved for an active or acknowledged alert
ResolveOffered(alert) == alert.status \in {"active", "acknowledged"}

\* Acknowledge clicked on a card: handleAcknowledge(alertId)
handleAcknowledge ==
    /\ \E alertId \in filteredAlerts :
          /\ AcknowledgeOffered(alerts[alertId])
          /\ alerts' = [alerts EXCEPT ![alertId].status = "acknowledged"]
    /\ UNCHANGED <<filterStatus, filterSeverity>>
    /\ UNCHANGED <<routeVars, classVars, feedVars, appVars>>
    /\ UNCHANGED <<clientVars, healthVars, historyVars, settingsVars>>

\* Mark as Resolved clicked on a card: handleResolve(alertId)
handleResolve ==
    /\ \E alertId \in filteredAlerts :
          /\ ResolveOffered(alerts[alertId])
          /\ alerts' = [alerts EXCEPT ![alertId].status = "resolved"]
    /\ UNCHANGED <<filterStatus, filterSeverity>>
    /\ UNCHANGED <<routeVars, classVars, feedVars, appVars>>
    /\ UNCHANGED <<clientVars, healthVars, historyVars, settingsVars>>

setFilterStatus ==
    /\ \E f \in StatusFilters : f # filterStatus /\ filterStatus' = f
    /\ UNCHANGED <<alerts, filterSeverity>>
    /\ UNCHANGED <<routeVars, classVars, feedVars, appVars>>
    /\ UNCHANGED <<clientVars, healthVars, historyVars, settingsVars>>

setFilterSeverity ==
    /\ \E f \in SeverityFilters : f # filterSeverity /\ filterSeverity' = f
    /\ UNCHANGED <<alerts, filterStatus>>
    /\ UNCHANGED <<routeVars, classVars, feedVars, appVars>>
    /\ UNCHANGED <<clientVars, healthVars, historyVars, settingsVars>>

\* ------------------------------------------------------------------------
\* Alert history page: search, severity filter and CSV export
\* ------------------------------------------------------------------------
\* A string is a sequence of pieces; the piece "," is a comma character and
\* no other piece contains one.
Text(str) == <<str>>

\* mockHistory: the ten exported properties of each record. Dates are shown
\* by a piece that stands for their toISOString() text.
mockHistory ==
    << [id |-> "ALT-045", title |-> "Critical Density - Main Entrance",
        severity |-> "critical", location |-> "Building A - Main Entrance",
        cameraId |-> "CAM-001", peopleCount |-> 412,
        timestamp |-> "iso-2d", resolvedAt |-> "iso-2d+45m",
        responseTime |-> 45,
        actions |-> <<"Alert acknowledged", ",",
                      " security personnel dispatched">>],
       [id |-> "ALT-044", title |-> "High Density Warning - Food Court",
        severity |-> "warning", location |-> "Building B - Food Court",
        cameraId |-> "CAM-002", peopleCount |-> 298,
        timestamp |-> "iso-3d", resolvedAt |-> "iso-3d+25m",
        responseTime |-> 25,
        actions |-> <<"Monitored", ",", " density reduced naturally">>],
       [id |-> "ALT-043", title |-> "Crowd Buildup - Parking Area",
        severity |-> "warning", location |-> "Outdoor - West Wing Parking",
        cameraId |-> "CAM-003", peopleCount |-> 267,
        timestamp |-> "iso-4d", resolvedAt |-> "iso-4d+30m",
        responseTime |-> 30,
        actions |-> <<"Traffic control measures applied">>],
       [id |-> "ALT-042", title |-> "Moderate Density - Exhibition Hall",
        severity |-> "info", location |-> "Building C - Exhibition Hall",
        cameraId |-> "CAM-004", peopleCount |-> 215,
        timestamp |-> "iso-5d", resolvedAt |-> "iso-5d+15m",
        responseTime |-> 15,
        actions |-> <<"No action required", ",", " auto-resolved">>],
       [id |-> "ALT-041", title |-> "Critical Density - Main Entrance",
        severity |-> "critical", location |-> "Building A - Main Entrance",
        cameraId |-> "CAM-001", peopleCount |-> 389,
        timestamp |-> "iso-7d", resolvedAt |-> "iso-7d+52m",
        responseTime |-> 52,
        actions |-> <<"Emergency protocols activated">>] >>

\* texts typed into the search box
SearchQueries == {"", "main entrance", "parking", "alt-044"}

\* text.toLowerCase().includes(query.toLowerCase()) over the titles,
\* locations and ids of mockHistory
Includes(text, query) ==
    CASE query = "" -> TRUE
      [] query = "main entrance" ->
            text \in {"Critical Density - Main Entrance",
                      "Building A - Main Entrance"}
      [] query = "parking" ->
            text \in {"Crowd Buildup - Parking Area",
                      "Outdoor - West Wing Parking"}
      [] query = "alt-044" -> text = "ALT-044"

\* filteredHistory
filteredHistory ==
    LET matches(item) ==
          /\ \/ Includes(item.title, searchQuery)
             \/ Includes(item.location, searchQuery)
             \/ Includes(item.id, searchQuery)
          /\ (historySeverity = "all" \/ item.severity = historySeverity)
    IN SelectSeq(mockHistory, matches)

\* the header row of handleExportCSV
CsvHeader ==
    << Text("Alert ID"), Text("Title"), Text("Severity"), Text("Location"),
       Text("Camera ID"), Text("People Count"), Text("Timestamp"),
       Text("Resolved At"), Text("Response Time"), Text("Actions") >>

\* the row handleExportCSV builds for a record; join() turns numbers into
\* their decimal text
CsvRow(item) ==
    << Text(item.id), Text(item.title), Text(item.severity),
       Text(item.location), Text(item.cameraId), Text(ToString(item.peopleCount)),
       Text(item.timestamp), Text(item.resolvedAt),
       Text(ToString(item.responseTime)), item.actions >>

\* row.join(","): the fields as they are, with a comma between them
RECURSIVE Join(_)
Join(row) ==
    IF Len(row) = 0 THEN <<>>
    ELSE IF Len(row) = 1 THEN row[1]
    ELSE row[1] \o <<",">> \o Join(Tail(row))

\* line.split(","): how a CSV reader cuts a line into fields
RECURSIVE Split(_)
Split(line) ==
    IF \A k \in 1..Len(line) : line[k] # "," THEN <<line>>
    ELSE LET k == CHOOSE k \in 1..Len(line) :
                     /\ line[k] = ","
                     /\ \A m \in 1..(k - 1) : line[m] # ","
         IN <<SubSeq(line, 1, k - 1)>> \o Split(SubSeq(line, k + 1, Len(line)))

\* handleExportCSV(): header and one row per filtered record, each joined
\* with commas; the lines are joined with newlines and downloaded
handleExportCSV ==
    /\ csvContent' =
          <<Join(CsvHeader)>>
          \o [r \in 1..Len(filteredHistory) |-> Join(CsvRow(filteredHistory[r]))]
    /\ UNCHANGED <<searchQuery, historySeverity>>
    /\ UNCHANGED <<routeVars, classVars, feedVars, appVars>>
    /\ UNCHANGED <<clientVars, healthVars, alertsVars, settingsVars>>

setSearchQuery ==
    /\ \E q \in SearchQueries : q # searchQuery /\ searchQuery' = q
    /\ UNCHANGED <<historySeverity, csvContent>>
    /\ UNCHANGED <<routeVars, classVars, feedVars, appVars>>
    /\ UNCHANGED <<clientVars, healthVars, alertsVars, settingsVars>>

setHistorySeverity ==
    /\ \E f \in SeverityFilters : f # historySeverity /\ historySeverity' = f
    /\ UNCHANGED <<searchQuery, csvContent>>
    /\ UNCHANGED <<routeVars, classVars, feedVars, appVars>>
    /\ UNCHANGED <<clientVars, healthVars, alertsVars, settingsVars>>

\* ------------------------------------------------------------------------
\* Camera management page: SettingsPage, CameraManagementCard, AddCameraDialog
\* ------------------------------------------------------------------------
NoEdit == [id |-> 0, alertThreshold |-> 0]

NoForm == [alertThreshold |-> 0]

\* texts of the Alert Threshold input (type="number"): emptied, or a number
ThresholdTexts == {"", "150"}

\* Number.parseInt(e.target.value)
parseInt(text) == IF text = "" THEN NaN ELSE 150

\* card.Edit clicked: the card's edit form holds the camera's values
startEdit ==
    /\ editData = NoEdit
    /\ \E i \in 1..Len(cameras) :
          editData' = [id |-> cameras[i].id,
                       alertThreshold |-> cameras[i].alertThreshold]
    /\ UNCHANGED <<cameras, formData, ops>>
    /\ UNCHANGED <<routeVars, classVars, feedVars, appVars>>
    /\ UNCHANGED <<clientVars, healthVars, alertsVars, historyVars>>

\* onChange of the card's threshold input
changeEditThreshold ==
    /\ editData # NoEdit
    /\ \E text \in ThresholdTexts :
          /\ parseInt(text) # editData.alertThreshold
          /\ editData' = [editData EXCEPT !.alertThreshold = parseInt(text)]
    /\ UNCHANGED <<cameras, formData, ops>>
    /\ UNCHANGED <<routeVars, classVars, feedVars, appVars>>
    /\ UNCHANGED <<clientVars, healthVars, alertsVars, historyVars>>

\* handleSave(): onUpdate(camera.id, editData), which is handleUpdateCamera:
\* every camera with that id is merged with the updates
handleSave ==
    /\ editData # NoEdit
    /\ ops < MaxOps
    /\ cameras' = [i \in 1..Len(cameras) |->
                      IF cameras[i].id = editData.id
                      THEN [cameras[i] EXCEPT
                              !.alertThreshold = editData.alertThreshold]
                      ELSE cameras[i]]
    /\ editData' = NoEdit
    /\ ops' = ops + 1
    /\ UNCHANGED formData
    /\ UNCHANGED <<routeVars, classVars, feedVars, appVars>>
    /\ UNCHANGED <<clientVars, healthVars, alertsVars, historyVars>>

\* handleCancel(): setEditData(camera)
handleCancel ==
    /\ editData # NoEdit
    /\ editData' = NoEdit
    /\ UNCHANGED <<cameras, formData, ops>>
    /\ UNCHANGED <<routeVars, classVars, feedVars, appVars>>
    /\ UNCHANGED <<clientVars, healthVars, alertsVars, historyVars>>

\* handleDeleteCamera(cameraId): every camera with that id is removed
handleDeleteCamera ==
    /\ editData = NoEdit
    /\ ops < MaxOps
    /\ \E i \in 1..Len(cameras) :
          cameras' = SelectSeq(cameras, LAMBDA cam : cam.id # cameras[i].id)
    /\ ops' = ops + 1
    /\ UNCHANGED <<editData, formData>>
    /\ UNCHANGED <<routeVars, classVars, feedVars, appVars>>
    /\ UNCHANGED <<clientVars, healthVars, alertsVars, historyVars>>

\* Add Camera clicked: the dialog opens with its default form
openAddDialog ==
    /\ formData = NoForm
    /\ formData' = [alertThreshold |-> 200]
    /\ UNCHANGED <<cameras, editData, ops>>
    /\ UNCHANGED <<routeVars, classVars, feedVars, appVars>>
    /\ UNCHANGED <<clientVars, healthVars, alertsVars, historyVars>>

\* onChange of the dialog's threshold input
changeFormThreshold ==
    /\ formData # NoForm
    /\ \E text \in ThresholdTexts :
          /\ parseInt(text) # formData.alertThreshold
          /\ formData' = [alertThreshold |-> parseInt(text)]
    /\ UNCHANGED <<cameras, editData, ops>>
    /\ UNCHANGED <<routeVars, classVars, feedVars, appVars>>
    /\ UNCHANGED <<clientVars, healthVars, alertsVars, historyVars>>

\* the dialog's form is submitted: the browser refuses while the required
\* threshold input is empty; handleSubmit calls onAdd(formData), which is
\* handleAddCamera: id CAM-(cameras.length + 1), appended to the list
handleAddCamera ==
    /\ formData # NoForm
    /\ formData.alertThreshold # NaN
    /\ ops < MaxOps
    /\ cameras' = Append(cameras, [id |-> Len(cameras) + 1,
                                   alertThreshold |-> formData.alertThreshold])
    /\ formData' = NoForm
    /\ ops' = ops + 1
    /\ UNCHANGED editData
    /\ UNCHANGED <<routeVars, classVars, feedVars, appVars>>
    /\ UNCHANGED <<clientVars, healthVars, alertsVars, historyVars>>

\* the dialog is closed without adding
closeAddDialog ==
    /\ formData # NoForm
    /\ formData' = NoForm
    /\ UNCHANGED <<cameras, editData, ops>>
    /\ UNCHANGED <<routeVars, classVars, feedVars, appVars>>
    /\ UNCHANGED <<clientVars, healthVars, alertsVars, historyVars>>

\* ------------------------------------------------------------------------
\* Android app: App
\* ------------------------------------------------------------------------
\* messaging().onMessage handler: Date.now() has advanced by elapsed
\* milliseconds since the previous message; a message with data is
\* prepended as an alert whose id is Date.now().toString()
onMessage ==
    /\ Len(appAlerts) < MaxAlerts
    /\ \E elapsed \in 0..1, hasData \in BOOLEAN, cameraId \in CameraIds :
          /\ now + elapsed <= MaxNow
          /\ now' = now + elapsed
          /\ appAlerts' =
                IF hasData
                THEN <<[id |-> now + elapsed, cameraId |-> cameraId,
                        acknowledged |-> FALSE]>> \o appAlerts
                ELSE appAlerts
    /\ UNCHANGED <<routeVars, classVars, feedVars, dashVars>>

\* acknowledgeAlert(alertId), from a press on the card of an alert: every
\* alert with that id gets acknowledged: true
acknowledgeAlert ==
    /\ \E i \in 1..Len(appAlerts) :
          appAlerts' = [k \in 1..Len(appAlerts) |->
                          IF appAlerts[k].id = appAlerts[i].id
                          THEN [appAlerts[k] EXCEPT !.acknowledged = TRUE]
                          ELSE appAlerts[k]]
    /\ UNCHANGED now
    /\ UNCHANGED <<routeVars, classVars, feedVars, dashVars>>

\* ------------------------------------------------------------------------
\* Initial state of each part of the application
\* ------------------------------------------------------------------------
NoAnswer == [cameraFeed |-> "none", dataAPI |-> "none"]

\* mockAlerts of the alerts page: status of each alert
mockAlerts ==
    [a \in AlertIds |->
        CASE a = "ALT-001" -> [severity |-> "critical", status |-> "active"]
          [] a = "ALT-002" -> [severity |-> "warning", status |-> "active"]
          [] a = "ALT-003" -> [severity |-> "warning", status |-> "acknowledged"]
          [] a = "ALT-004" -> [severity |-> "info", status |-> "resolved"]]

NoCsv == <<>>

\* mockCameras of the camera management page: id and alertThreshold
mockCameras_settings ==
    << [id |-> 1, alertThreshold |-> 300],
       [id |-> 2, alertThreshold |-> 250],
       [id |-> 3, alertThreshold |-> 200],
       [id |-> 4, alertThreshold |-> 180],
       [id |-> 5, alertThreshold |-> 100],
       [id |-> 6, alertThreshold |-> 150] >>

IdleRoute ==
    /\ routeImpl = "part_004"
    /\ prevRisk = [c \in CameraIds |-> "none"]
    /\ lastReq = NoReq
    /\ alertThreshold = mockCameras

IdleClassify ==
    /\ argA = 0 /\ argB = 0 /\ outA = "none" /\ outB = "none"
    /\ classifier = "none"

IdleFeed ==
    /\ camera = [id |-> "CAM-001", status |-> "online", riskLevel |-> "high"]
    /\ phase = "created"
    /\ isPaused = FALSE /\ isWebcamActive = FALSE /\ isWebcamEnabled = TRUE
    /\ detections = NoDetection /\ error = "none"
    /\ detectionIntervalRef = 0 /\ streamRef = 0
    /\ streams = [i \in StreamIds |-> "free"]
    /\ timers = [i \in TimerIds |-> NoTimer]
    /\ pendingInit = 0 /\ video = "none" /\ closurePaused = FALSE
    /\ inflight = <<>> /\ reported = NoDetection

\* let cameraFeedClient: CameraFeedClient | null = null
IdleClient ==
    /\ cameraFeedClient = NoClient
    /\ sockets = [i \in SocketIds |-> NoSocket]
    /\ emitted = {}
    /\ requested = {}

\* useState of BackendStatus
IdleHealth ==
    /\ backendStatus = [cameraFeed |-> FALSE, dataAPI |-> FALSE, checking |-> TRUE]
    /\ healthChecks = 0
    /\ answered = NoAnswer
    /\ statusPhase = "created"

\* useState of AlertsPage
IdleAlerts ==
    /\ alerts = mockAlerts
    /\ filterStatus = "all"
    /\ filterSeverity = "all"

\* useState of HistoryPage
IdleHistory ==
    /\ searchQuery = ""
    /\ historySeverity = "all"
    /\ csvContent = NoCsv

\* useState of SettingsPage
IdleSettings ==
    /\ cameras = mockCameras_settings
    /\ editData = NoEdit
    /\ formData = NoForm
    /\ ops = 0

\* useState<Alert[]>([])
IdleApp ==
    /\ appAlerts = <<>>
    /\ now = 0

IdleDashboard ==
    IdleClient /\ IdleHealth /\ IdleAlerts /\ IdleHistory /\ IdleSettings
    /\ IdleApp

\* ------------------------------------------------------------------------
\* Specifications
\* ------------------------------------------------------------------------
NextRoute == Post003 \/ Post004 \/ Post005 \/ Post006 \/ handleUpdateCamera

InitRoute ==
    /\ routeImpl \in RouteImpls
    /\ prevRisk = [c \in CameraIds |-> "none"]
    /\ lastReq = NoReq
    /\ alertThreshold = mockCameras
    /\ argA = 0 /\ argB = 0 /\ outA = "none" /\ outB = "none"
    /\ classifier = "none"
    /\ camera = [id |-> "CAM-001", status |-> "online", riskLevel |-> "high"]
    /\ phase = "created"
    /\ isPaused = FALSE /\ isWebcamActive = FALSE /\ isWebcamEnabled = TRUE
    /\ detections = NoDetection /\ error = "none"
    /\ detectionIntervalRef = 0 /\ streamRef = 0
    /\ streams = [i \in StreamIds |-> "free"]
    /\ timers = [i \in TimerIds |-> NoTimer]
    /\ pendingInit = 0 /\ video = "none" /\ closurePaused = FALSE
    /\ inflight = <<>> /\ reported = NoDetection
    /\ IdleDashboard

SpecRoute == InitRoute /\ [][NextRoute]_vars

NextClassify == ClassifyRoute \/ ClassifyWebcam

InitClassify ==
    /\ routeImpl = "part_004"
    /\ prevRisk = [c \in CameraIds |-> "none"]
    /\ lastReq = NoReq
    /\ alertThreshold = mockCameras
    /\ argA \in 0..RouteMockMax /\ argB \in 0..RouteMockMax
    /\ outA = "none" /\ outB = "none"
    /\ classifier = "none"
    /\ camera = [id |-> "CAM-001", status |-> "online", riskLevel |-> "high"]
    /\ phase = "created"
    /\ isPaused = FALSE /\ isWebcamActive = FALSE /\ isWebcamEnabled = TRUE
    /\ detections = NoDetection /\ error = "none"
    /\ detectionIntervalRef = 0 /\ streamRef = 0
    /\ streams = [i \in StreamIds |-> "free"]
    /\ timers = [i \in TimerIds |-> NoTimer]
    /\ pendingInit = 0 /\ video = "none" /\ closurePaused = FALSE
    /\ inflight = <<>> /\ reported = NoDetection
    /\ IdleDashboard

SpecClassify == InitClassify /\ [][NextClassify]_vars

NextFeed ==
    \/ Mount \/ toggleWebcam \/ RetryWebcamAccess
    \/ GetUserMediaResolve \/ GetUserMediaReject
    \/ startDetection \/ togglePause \/ Tick
    \/ DetectOk \/ DetectFailed \/ Unmount

\* the revisions of the route a WebcamFeed can tell apart: the latest that
\* forwards to the inference server and the latest that draws mock results
\* (part_003 and part_004 answer the component's requests as these do)
FeedRouteImpls == {"part_005", "part_006"}

\* the state after the useState and useRef initialisers of WebcamFeed
InitFeed ==
    /\ routeImpl \in FeedRouteImpls
    /\ prevRisk = [c \in CameraIds |-> "none"]
    /\ lastReq = NoReq
    /\ alertThreshold = mockCameras
    /\ argA = 0 /\ argB = 0 /\ outA = "none" /\ outB = "none"
    /\ classifier = "none"
    /\ camera \in FeedCameras
    /\ phase = "created"
    /\ isPaused = FALSE /\ isWebcamActive = FALSE
    /\ isWebcamEnabled = (camera.id = "CAM-001")
    /\ detections = NoDetection /\ error = "none"
    /\ detectionIntervalRef = 0 /\ streamRef = 0
    /\ streams = [i \in StreamIds |-> "free"]
    /\ timers = [i \in TimerIds |-> NoTimer]
    /\ pendingInit = 0 /\ video = "none" /\ closurePaused = FALSE
    /\ inflight = <<>> /\ reported = NoDetection
    /\ IdleDashboard

SpecFeed == InitFeed /\ [][NextFeed]_vars

NextClient ==
    \/ getCameraFeedClient \/ connect \/ disconnect
    \/ startCamera \/ stopCamera
    \/ onFrame \/ onError \/ onCameraResponse
    \/ SocketConnect \/ SocketDisconnect \/ SocketConnectError

InitClient ==
    /\ IdleRoute /\ IdleClassify /\ IdleFeed
    /\ IdleClient
    /\ IdleHealth /\ IdleAlerts /\ IdleHistory /\ IdleSettings
    /\ IdleApp

\* a reachable camera feed server accepts a connecting socket
SpecClient == InitClient /\ [][NextClient]_vars /\ WF_vars(SocketConnect)

\* the documented usage up to stopCamera(): the client is obtained, cameras
\* are started and listeners registered while the socket connects
NextClientUsage ==
    \/ getCameraFeedClient \/ startCamera \/ onFrame \/ onError
    \/ SocketConnect \/ SocketDisconnect \/ SocketConnectError

SpecClientUsage ==
    InitClient /\ [][NextClientUsage]_vars /\ WF_vars(SocketConnect)

NextHealth ==
    \/ MountStatus \/ IntervalCheck \/ RefreshClick
    \/ HealthCompleted \/ UnmountStatus

InitHealth ==
    /\ IdleRoute /\ IdleClassify /\ IdleFeed
    /\ IdleHealth
    /\ IdleClient /\ IdleAlerts /\ IdleHistory /\ IdleSettings
    /\ IdleApp

SpecHealth == InitHealth /\ [][NextHealth]_vars

NextAlerts ==
    \/ handleAcknowledge \/ handleResolve
    \/ setFilterStatus \/ setFilterSeverity

InitAlerts ==
    /\ IdleRoute /\ IdleClassify /\ IdleFeed
    /\ IdleAlerts
    /\ IdleClient /\ IdleHealth /\ IdleHistory /\ IdleSettings
    /\ IdleApp

SpecAlerts == InitAlerts /\ [][NextAlerts]_vars

NextHistory == handleExportCSV \/ setSearchQuery \/ setHistorySeverity

InitHistory ==
    /\ IdleRoute /\ IdleClassify /\ IdleFeed
    /\ IdleHistory
    /\ IdleClient /\ IdleHealth /\ IdleAlerts /\ IdleSettings
    /\ IdleApp

SpecHistory == InitHistory /\ [][NextHistory]_vars

NextSettings ==
    \/ startEdit \/ changeEditThreshold \/ handleSave \/ handleCancel
    \/ handleDeleteCamera
    \/ openAddDialog \/ changeFormThreshold \/ handleAddCamera
    \/ closeAddDialog

InitSettings ==
    /\ IdleRoute /\ IdleClassify /\ IdleFeed
    /\ IdleSettings
    /\ IdleClient /\ IdleHealth /\ IdleAlerts /\ IdleHistory
    /\ IdleApp

SpecSettings == InitSettings /\ [][NextSettings]_vars

NextApp == onMessage \/ acknowledgeAlert

InitApp ==
    /\ IdleRoute /\ IdleClassify /\ IdleFeed
    /\ IdleDashboard

SpecApp == InitApp /\ [][NextApp]_vars

\* the WebcamFeed while every detection request fails; the interval keeps
\* firing and every fetch settles
NextFeedDown ==
    \/ Mount \/ toggleWebcam \/ RetryWebcamAccess
    \/ GetUserMediaResolve \/ GetUserMediaReject
    \/ startDetection \/ togglePause \/ Tick
    \/ DetectFailed \/ Unmount

SpecFeedDown ==
    InitFeed /\ [][NextFeedDown]_vars /\ WF_vars(Tick) /\ WF_vars(DetectFailed)

\* ------------------------------------------------------------------------
\* Properties of the route and of the classifiers
\* ------------------------------------------------------------------------
Alerted(r) == r.stored \/ r.pushed

\* C1: an alert is emitted only for a request whose risk level is high and
\* whose preceding result for the same camera was not high (edge-triggered);
\* a run of consecutive high results gives one alert.
CE_C1_EdgeTriggeredAlert ==
    Alerted(lastReq) =>
        (lastReq.riskLevel = "high" /\ lastReq.prevRisk # "high")

\* C2: both classifiers are monotonic: for counts a <= b the risk level of a
\* is not higher than the risk level of b in the order low < medium < high.
Thm_C2_ClassifiersMonotonic ==
    (classifier # "none" /\ argA <= argB) => Rank(outA) <= Rank(outB)

Wit_C2_ClassifiersMonotonic ==
    /\ classifier = "route"
    /\ argA = 6 /\ argB = 11
    /\ outA = "low" /\ outB = "high"

\* the bands of the Alert Configuration guide: 1-5 low, 6-10 medium, 11+ high
DocumentedBand(count) ==
    IF count >= 11 THEN "high"
    ELSE IF count >= 6 THEN "medium"
    ELSE "low"

\* C3: the route's own classification gives low to every count from 1 to 5,
\* medium to every count from 6 to 10 and high to every count of 11 or more.
CE_C3_RouteBands ==
    (routeImpl \in MockImpls /\ lastReq.status = 200 /\ lastReq.count >= 1)
        => lastReq.riskLevel = DocumentedBand(lastReq.count)

\* C5: an alert is raised for a detection request exactly when the people
\* count reaches the alertThreshold configured for the request's camera.
CE_C5_PerCameraThreshold ==
    lastReq.status = 200 =>
        (Alerted(lastReq) <=> lastReq.count >= alertThreshold[lastReq.cam])

\* ------------------------------------------------------------------------
\* Properties of the WebcamFeed
\* ------------------------------------------------------------------------
\* what the card renders: detections?.count || 0 and
\* detections?.riskLevel || camera.riskLevel
DisplayedCount ==
    IF detections = NoDetection \/ detections.count = 0 THEN 0
    ELSE detections.count

DisplayedRisk ==
    IF detections = NoDetection THEN camera.riskLevel ELSE detections.riskLevel

\* C4: the risk level a WebcamFeed shows is a function of the people count
\* alone: two accepted results with the same count carry the same riskLevel,
\* whether they came from the route or from the client-side fallback.
CE_C4_RiskFunctionOfCount ==
    [][ ( /\ detections # NoDetection
          /\ detections' # NoDetection
          /\ detections'.count = detections.count )
        => detections'.riskLevel = detections.riskLevel ]_vars

\* C6: in every reachable state, also before the first result, a displayed
\* people count of 0 goes with a displayed risk level of low.
CE_C6_ZeroCountIsLow ==
    DisplayedCount = 0 => DisplayedRisk = "low"

\* C7: when a detection request fails, the metrics displayed and reported
\* after it are the previous ones or zero; no new non-zero count appears.
CE_C7_FailureHoldsOrZeroes ==
    [][ DetectFailed =>
          /\ (detections' = detections \/ DisplayedCount' = 0)
          /\ (reported' = reported \/ reported'.count = 0) ]_vars

DetectionRunning ==
    /\ isWebcamActive
    /\ \E t \in TimerIds : timers[t].state = "live" /\ ~timers[t].isPaused

\* C8: if every detection request of a running WebcamFeed fails, the
\* component eventually enters the error state (error is set).
CE_C8_FailuresEscalate ==
    <>[]DetectionRunning => <>(error # "none")

\* the steps in which stopWebcam() is called
CallsStopWebcam ==
    \/ Unmount
    \/ toggleWebcam /\ camera.id = "CAM-001"
    \/ RetryWebcamAccess
    \/ Mount /\ ~(camera.status = "online" /\ isWebcamEnabled
                  /\ camera.id = "CAM-001")
    \/ GetUserMediaReject /\ phase = "mounted" /\ isWebcamEnabled

\* C9: after any call of stopWebcam every track of the stream that was held
\* is stopped, streamRef and the detection timer are cleared and
\* isWebcamActive is false, and a second call leaves that state unchanged.
Thm_C9_StopWebcamIdempotent ==
    [][ CallsStopWebcam =>
          /\ streamRef' = 0
          /\ detectionIntervalRef' = 0
          /\ ~isWebcamActive'
          /\ (streamRef # 0 => streams'[streamRef] = "stopped")
          /\ (detectionIntervalRef # 0 =>
                timers'[detectionIntervalRef].state # "live")
          /\ stopWebcam(Webcam)' = Webcam' ]_vars

Wit_C9_StopWebcamIdempotent ==
    /\ streamRef = 0 /\ detectionIntervalRef = 0 /\ ~isWebcamActive
    /\ \E i \in StreamIds : streams[i] = "stopped"
    /\ \A i \in StreamIds : streams[i] # "live"
    /\ detections # NoDetection

\* stopWebcam has run and the webcam has not been started again
Stopped == streamRef = 0 /\ ~isWebcamActive

\* C10: after stopWebcam no detection result is applied with setDetections
\* or delivered through onDetectionUpdate until the webcam is started again.
CE_C10_NoResultAfterStop ==
    [][ Stopped => (detections' = detections /\ reported' = reported) ]_vars

\* the position in inflight of the request a step has answered: the requests
\* issued before it are the ones left marked stale
AnsweredRequest ==
    Cardinality({ j \in 1..Len(inflight') : inflight'[j].stale }) + 1

\* C11: latest wins: the detection result a mounted WebcamFeed holds is never
\* replaced by the result of a frame captured earlier than the frame whose
\* result is held, whatever the order in which responses arrive.
CE_C11_LatestWins ==
    [][ ( /\ phase = "mounted"
          /\ Len(inflight') < Len(inflight) )
        => ~inflight[AnsweredRequest].stale ]_vars

\* C12: a WebcamFeed has at most one detection request in flight: no request
\* is issued while an earlier one is unanswered.
CE_C12_OneRequestInFlight ==
    Len(inflight) <= 1

\* C17: while the WebcamFeed is paused (isPaused is true) no detection tick
\* calls runDetection.
CE_C17_PausedNoDetection ==
    [][ Tick => ~isPaused ]_vars

\* C19: whenever isWebcamEnabled is false and no getUserMedia call is
\* pending, no live stream is held: a stream arriving after the webcam was
\* disabled is stopped and is neither stored in streamRef nor made active.
CE_C19_NoStreamWhenDisabled ==
    (~isWebcamEnabled /\ pendingInit = 0)
        => /\ \A i \in StreamIds : streams[i] # "live"
           /\ streamRef = 0
           /\ ~isWebcamActive

\* C20: at most one stream obtained from getUserMedia is live at any time,
\* and every live stream is the one in streamRef.
CE_C20_SingleLiveStream ==
    /\ Cardinality({ i \in StreamIds : streams[i] = "live" }) <= 1
    /\ \A i \in StreamIds : streams[i] = "live" => streamRef = i

\* C13: a startCamera(id) call on the client of getCameraFeedClient() is not
\* lost when it is issued before the connection is established: if the
\* socket is connected afterwards, start_camera with camera_id = id is
\* eventually sent.
CE_C13_StartNotLost ==
    \A id \in CameraNumbers :
        [](id \in requested
             => (<>SocketConnected => <>(start_camera(id) \in emitted)))

\* a server answered healthy: an OK response (with a JSON body from the data
\* API)
Healthy(answer) == answer = "ok"

HealthyServers ==
    Cardinality({ srv \in {"cameraFeed", "dataAPI"} : Healthy(answered[srv]) })

\* C14: once a health check has completed, BackendStatus shows Connected
\* exactly when both servers answered healthy, Partial exactly when one did
\* and Offline exactly when neither did, and the result reported for each
\* server is that server's own answer.
Thm_C14_BadgeMatchesHealth ==
    (statusPhase = "mounted" /\ answered # NoAnswer /\ ~backendStatus.checking)
        => /\ Badge(backendStatus) =
                 CASE HealthyServers = 2 -> "Connected"
                   [] HealthyServers = 1 -> "Partial"
                   [] HealthyServers = 0 -> "Offline"
           /\ backendStatus.cameraFeed = Healthy(answered.cameraFeed)
           /\ backendStatus.dataAPI = Healthy(answered.dataAPI)

Wit_C14_BadgeMatchesHealth ==
    /\ statusPhase = "mounted" /\ ~backendStatus.checking
    /\ answered = [cameraFeed |-> "reject", dataAPI |-> "ok"]
    /\ Badge(backendStatus) = "Partial"
    /\ healthChecks = 1

StatusRank(st) ==
    CASE st = "active" -> 0 [] st = "acknowledged" -> 1 [] st = "resolved" -> 2

\* C15: under the Acknowledge and Resolve actions the alerts page offers, an
\* alert's status only moves forward in the order active, acknowledged,
\* resolved: a resolved alert never changes again and an acknowledged alert
\* never returns to active.
Thm_C15_AlertStatusForward ==
    [][ \A a \in AlertIds :
          /\ StatusRank(alerts'[a].status) >= StatusRank(alerts[a].status)
          /\ (alerts[a].status = "resolved" => alerts'[a] = alerts[a]) ]_vars

Wit_C15_AlertStatusForward ==
    /\ alerts["ALT-001"].status = "resolved"
    /\ alerts["ALT-002"].status = "acknowledged"
    /\ alerts["ALT-003"].status = "resolved"

\* C16: the exported CSV round-trips: every exported row splits on commas
\* into as many fields as the header row, and the fields are the values of
\* the record the row was built from.
CE_C16_CsvRoundTrip ==
    \A r \in 2..Len(csvContent) :
        /\ Len(Split(csvContent[r])) = Len(Split(csvContent[1]))
        /\ \E k \in 1..Len(mockHistory) :
              Split(csvContent[r]) = CsvRow(mockHistory[k])

\* C18: a camera configuration whose alert threshold is empty or not a
\* number is rejected: after any sequence of add and edit-save operations
\* every stored camera has a numeric alertThreshold.
CE_C18_ThresholdNumeric ==
    \A i \in 1..Len(cameras) : cameras[i].alertThreshold # NaN

\* some getUserMedia call has been made and not yet answered, or a stream it
\* returned exists
GetUserMediaCalled ==
    \/ pendingInit > 0
    \/ \E i \in StreamIds : streams[i] # "free"

\* C21: only the camera with id CAM-001 can use the webcam: for every other
\* camera id isWebcamEnabled and isWebcamActive are false in every reachable
\* state and getUserMedia is never called, whatever buttons are pressed.
Thm_C21_OnlyMainCameraUsesWebcam ==
    camera.id # "CAM-001"
        => /\ ~isWebcamEnabled
           /\ ~isWebcamActive
           /\ ~GetUserMediaCalled
           /\ streamRef = 0

\* an online camera other than CAM-001 whose first effect and its cleanup
\* have both run
Wit_C21_OnlyMainCameraUsesWebcam ==
    /\ camera.id = "CAM-002" /\ camera.status = "online"
    /\ phase = "unmounted"
    /\ ~isWebcamEnabled /\ ~GetUserMediaCalled

\* the last handled request carried no image: its body was not JSON, or was
\* JSON without an image
WithoutImage(r) == r # NoReq /\ ~r.image

\* C22: a detect-crowd request without an image is answered with status 400
\* and has no other effect: the inference server is not called, no alert
\* record is written and no push notification is sent.
CE_C22_NoImageIs400 ==
    WithoutImage(lastReq)
        => /\ lastReq.status = 400
           /\ ~lastReq.mlCalled /\ ~lastReq.stored /\ ~lastReq.pushed

\* C23: the route that forwards to the inference server maps failures to
\* outcomes without alert side effects: an unreachable inference server
\* gives 503, a non-OK inference response gives that same status, any other
\* exception (a request body or an inference answer that is not JSON) gives
\* 500, and in none of these cases is an alert stored or a push sent.
CE_C23_FailureMapping ==
    (routeImpl = "part_005" /\ lastReq # NoReq)
        => /\ lastReq.ml.kind = "unreachable" => lastReq.status = 503
           /\ lastReq.ml.kind = "notok" => lastReq.status = lastReq.ml.status
           /\ lastReq.ml.kind = "badjson" => lastReq.status = 500
           /\ ~lastReq.bodyOk => lastReq.status = 500
           /\ lastReq.status # 200 => (~lastReq.stored /\ ~lastReq.pushed)

\* C24: for a high-risk detection, a failure to store the alert record in
\* Firestore does not prevent the push notification and does not change the
\* response: the route still answers 200 with the detection result.
Thm_C24_FirestoreFailureTolerated ==
    (lastReq.ml.kind = "ok" /\ riskLevel_python(lastReq.ml.count) = "high")
        => /\ lastReq.status = 200
           /\ lastReq.count = lastReq.ml.count
           /\ lastReq.riskLevel = "high"
           /\ lastReq.pushed
           /\ lastReq.stored = (lastReq.fs = "ok")

Wit_C24_FirestoreFailureTolerated ==
    /\ routeImpl = "part_005"
    /\ lastReq.ml.kind = "ok" /\ lastReq.ml.count = MaxCount
    /\ lastReq.fs = "fail"
    /\ lastReq.status = 200 /\ lastReq.pushed /\ ~lastReq.stored

\* C25: after any sequence of add, update and delete operations on the
\* camera management page all cameras in the list have pairwise distinct
\* ids, so an update or delete by id affects exactly one camera.
CE_C25_DistinctCameraIds ==
    \A i, j \in 1..Len(cameras) :
        cameras[i].id = cameras[j].id => i = j

\* sockets that are connecting or connected
OpenSockets ==
    { i \in SocketIds : sockets[i].state \in {"connecting", "connected"} }

\* C26: a CameraFeedClient owns at most one socket at any time: calling
\* connect() again, whether the current socket is connected or still
\* connecting, never creates a second socket while an undisconnected one
\* exists.
CE_C26_AtMostOneSocket ==
    Cardinality(OpenSockets) <= 1

\* the singleton exists and disconnect() has nulled its socket
Disconnected ==
    cameraFeedClient # NoClient /\ cameraFeedClient.socket = 0

\* C27: getCameraFeedClient() always returns the same instance, and after
\* disconnect() on it every later onFrame, onError, onCameraResponse,
\* startCamera and stopCamera call is a no-op (nothing registered, nothing
\* emitted) until connect() is called explicitly; the socket connect()
\* creates carries none of the handlers registered before the disconnect.
Thm_C27_DisconnectedIsInert ==
    [][ /\ cameraFeedClient # NoClient => cameraFeedClient' # NoClient
        /\ Disconnected =>
              /\ emitted' = emitted
              /\ \A i \in SocketIds :
                    sockets'[i].listeners = sockets[i].listeners
              /\ cameraFeedClient'.socket # 0 =>
                    sockets'[cameraFeedClient'.socket] =
                        [state |-> "connecting", listeners |-> {}] ]_vars

\* camera 0 was started while connected; after disconnect() the call
\* startCamera(1) emitted nothing
Wit_C27_DisconnectedIsInert ==
    /\ Disconnected
    /\ requested = {0, 1}
    /\ emitted = {start_camera(0)}
    /\ \A i \in SocketIds : sockets[i] = NoSocket

\* C28: in the Android app every alert in the list has a distinct id, so
\* acknowledgeAlert(id) sets acknowledged on exactly one alert and leaves all
\* others unchanged; acknowledged never reverts to false and alerts are only
\* ever prepended, never removed.
CE_C28_DistinctAlertIds ==
    \A i, j \in 1..Len(appAlerts) :
        appAlerts[i].id = appAlerts[j].id => i = j

\* detection interval timers that have been set and not cleared
LiveTimers == { i \in TimerIds : timers[i].state = "live" }

\* C29: at most one detection interval timer exists per WebcamFeed at any
\* time, and none exists while isWebcamActive is false: every timer created
\* by startDetection is cleared by stopWebcam before another is created.
CE_C29_SingleTimer ==
    /\ Cardinality(LiveTimers) <= 1
    /\ ~isWebcamActive => LiveTimers = {}

====
